---------------------------- MODULE Spec2Model ----------------------------
(***************************************************************************)
(* A model of the MoviePilot plugins TopAnimeStrm and VideoStrm            *)
(* (src/plugins/topanimestrm/__init__.py, src/plugins/videostrm/           *)
(* __init__.py).                                                           *)
(*                                                                         *)
(* A Python str is modelled as a sequence of one-character strings, so     *)
(* that every string operation of the source (endswith, replace, split,    *)
(* strip, unquote, quote, the regular expressions) is computed character   *)
(* by character as the interpreter computes it.                            *)
(***************************************************************************)
EXTENDS Integers, Sequences, FiniteSets, TLC

VARIABLES
    \* _convert_url_format / _is_url_format_valid applied to one feed link
    file_url, src_url, url_pc,
    \* _clean_filename applied to one raw name, and again to its own result
    filename, clean_name, clean_file_name, clean_pc,
    \* _clean_and_get_top15 applied to the candidates one page scrape found
    video_files, cleaned_files, agg_pc,
    \* get_current_season_list building video_files: the extraction layer at
    \* work, the elements it has gone through, and every candidate string
    \* the layers have come upon so far
    layer, nfound, discovered,
    \* the storage directory and the descriptor writers called on it:
    \* fs maps the path of every file in the directory to its content
    fs, dir_exists, _date, _storageplace, last, ncalls,
    \* the TopAnimeStrm plugin: its attributes, the configuration it saved,
    \* the jobs of its scheduler, and the runs of __task the jobs started
    PLAYWRIGHT_AVAILABLE, _enabled, _cron, _onlyonce, _fulladd, saved,
    _scheduler, run, init_config, ninit, ncron

urlVars == <<file_url, src_url, url_pc>>
cleanVars == <<filename, clean_name, clean_file_name, clean_pc>>
aggVars == <<video_files, cleaned_files, agg_pc>>
scrapeVars == <<layer, nfound, discovered>>
dirVars == <<fs, dir_exists, _date>>
callVars == <<_storageplace, last, ncalls>>
writerVars == <<dirVars, callVars>>
pluginVars == <<PLAYWRIGHT_AVAILABLE, _enabled, _cron, _onlyonce, _fulladd, saved,
                _scheduler, run, init_config, ninit, ncron>>

vars == <<urlVars, cleanVars, aggVars, scrapeVars, writerVars, pluginVars>>

\* What each specification leaves alone.
notUrl == <<cleanVars, aggVars, scrapeVars, writerVars, pluginVars>>
notClean == <<urlVars, aggVars, scrapeVars, writerVars, pluginVars>>
notAgg == <<urlVars, cleanVars, scrapeVars, writerVars, pluginVars>>
notWriter == <<urlVars, cleanVars, aggVars, scrapeVars, pluginVars>>
notPlugin == <<urlVars, cleanVars, aggVars, scrapeVars, callVars>>
notScrape == <<urlVars, cleanVars, cleaned_files, agg_pc, writerVars, pluginVars>>

-----------------------------------------------------------------------------
(* Characters *)

\* The printable ASCII characters, code 32 (space) to 126 (~), in code order
\* (code 96, the grave accent, is written "GRAVE": the lexer has no such string).
Ascii ==
    << " ", "!", "\"", "#", "$", "%", "&", "'", "(", ")", "*", "+", ",", "-", ".", "/",
       "0", "1", "2", "3", "4", "5", "6", "7", "8", "9", ":", ";", "<", "=", ">", "?",
       "@", "A", "B", "C", "D", "E", "F", "G", "H", "I", "J", "K", "L", "M", "N", "O",
       "P", "Q", "R", "S", "T", "U", "V", "W", "X", "Y", "Z", "[", "\\", "]", "^", "_",
       "GRAVE", "a", "b", "c", "d", "e", "f", "g", "h", "i", "j", "k", "l", "m", "n", "o",
       "p", "q", "r", "s", "t", "u", "v", "w", "x", "y", "z", "{", "|", "}", "~" >>

\* What a byte that is no printable ASCII character and no ASCII white space
\* decodes to (errors='replace' gives U+FFFD for a byte that is not UTF-8).
ReplacementChar == "U+FFFD"

\* chr(n) for a byte n of a percent-decoded string.
Chr(n) ==
    IF n \in 32..126 THEN Ascii[n - 31]
    ELSE IF n = 9 THEN "\t"
    ELSE IF n = 10 THEN "\n"
    ELSE IF n = 12 THEN "\f"
    ELSE IF n = 13 THEN "\r"
    ELSE ReplacementChar

\* ord(c) of a printable ASCII character.
Ord(c) == 31 + (CHOOSE i \in 1..Len(Ascii) : Ascii[i] = c)

IsAscii(c) == \E i \in 1..Len(Ascii) : Ascii[i] = c

Digits == <<"0", "1", "2", "3", "4", "5", "6", "7", "8", "9">>

\* \d of the re module, on the ASCII characters.
IsDigit(c) == \E i \in 1..10 : Digits[i] = c

DigitVal(c) == (CHOOSE i \in 1..10 : Digits[i] = c) - 1

\* \s of the re module and str.strip()'s white space, on the ASCII characters.
IsSpace(c) == c \in {" ", "\t", "\n", "\r", "\f"}

HexDigits == <<"0", "1", "2", "3", "4", "5", "6", "7", "8", "9",
               "A", "B", "C", "D", "E", "F">>
HexLower == <<"0", "1", "2", "3", "4", "5", "6", "7", "8", "9",
              "a", "b", "c", "d", "e", "f">>

IsHex(c) == \E i \in 1..16 : HexDigits[i] = c \/ HexLower[i] = c

HexVal(c) == (CHOOSE i \in 1..16 : HexDigits[i] = c \/ HexLower[i] = c) - 1

-----------------------------------------------------------------------------
(* str operations *)

\* The required media extension.
MP4 == <<".", "m", "p", "4">>

\* s[i:] with a 1-based i.
From(s, i) == SubSeq(s, i, Len(s))

\* s[i:].startswith(pat)
MatchesAt(s, i, pat) ==
    /\ i >= 1
    /\ i + Len(pat) - 1 <= Len(s)
    /\ \A k \in 1..Len(pat) : s[i + k - 1] = pat[k]

\* s.endswith(suf)
EndsWith(s, suf) ==
    /\ Len(suf) <= Len(s)
    /\ MatchesAt(s, Len(s) - Len(suf) + 1, suf)

\* pat in s
Contains(s, pat) == \E i \in 1..(Len(s) + 1) : MatchesAt(s, i, pat)

\* s.find(pat) + 1: the first place pat occurs in s, 0 when there is none.
Find(s, pat) ==
    IF Contains(s, pat)
    THEN CHOOSE i \in 1..(Len(s) + 1) :
            /\ MatchesAt(s, i, pat)
            /\ \A j \in 1..(i - 1) : ~MatchesAt(s, j, pat)
    ELSE 0

\* s.replace(old, new) for a non-empty old: every occurrence, left to right,
\* without overlap.
RECURSIVE Replace(_, _, _)
Replace(s, old, new) ==
    LET i == Find(s, old)
    IN  IF i = 0 THEN s
        ELSE SubSeq(s, 1, i - 1) \o new \o Replace(From(s, i + Len(old)), old, new)

\* s.split(pat)[0]
SplitFirst(s, pat) ==
    LET i == Find(s, pat)
    IN  IF i = 0 THEN s ELSE SubSeq(s, 1, i - 1)

\* s.split(pat)[-1] for a one-character pat
SplitLast(s, c) ==
    LET at == {i \in 1..Len(s) : s[i] = c}
    IN  IF at = {} THEN s
        ELSE From(s, 1 + CHOOSE i \in at : \A j \in at : j <= i)

\* list(f): the function f on 1..n as the sequence of its values.
Listed(f) == SubSeq(f, 1, Len(f))

\* s.strip()
Strip(s) ==
    LET keep == {i \in 1..Len(s) : ~IsSpace(s[i])}
    IN  IF keep = {} THEN <<>>
        ELSE SubSeq(s, CHOOSE i \in keep : \A j \in keep : i <= j,
                       CHOOSE i \in keep : \A j \in keep : j <= i)

\* urllib.parse.unquote(s): every % that two hexadecimal digits follow is
\* replaced by the character of that code, in one pass from the left; any
\* other % stays. It raises for no str.
RECURSIVE Unquote(_)
Unquote(s) ==
    IF s = <<>> THEN <<>>
    ELSE IF s[1] = "%" /\ Len(s) >= 3 /\ IsHex(s[2]) /\ IsHex(s[3])
         THEN <<Chr(16 * HexVal(s[2]) + HexVal(s[3]))>> \o Unquote(From(s, 4))
         ELSE <<s[1]>> \o Unquote(From(s, 2))

\* re.sub(r'<[^>]+>', '', s)
RECURSIVE StripTags(_)
StripTags(s) ==
    IF s = <<>> THEN <<>>
    ELSE LET close == Find(s, <<">">>)
         IN  IF s[1] = "<" /\ close >= 3
             THEN StripTags(From(s, close + 1))
             ELSE <<s[1]>> \o StripTags(From(s, 2))

-----------------------------------------------------------------------------
(* TopAnimeStrm: the name normalizer *)

A_VIEW == <<"?", "a", "=", "v", "i", "e", "w">>

\* Mutant of CleanFilename: the final "filename += '.mp4'" left out.
CleanFilename_NoExtension(name) ==
    IF name = <<>> THEN <<>>
    ELSE LET cut == IF Contains(name, A_VIEW) THEN SplitFirst(name, A_VIEW) ELSE name
             text == StripTags(Unquote(cut))
         IN  Strip(IF Contains(text, <<"/">>) THEN SplitLast(text, "/") ELSE text)

\* _clean_filename
CleanFilename(name) ==
    IF name = <<>> THEN <<>>
    ELSE LET cut == IF Contains(name, A_VIEW) THEN SplitFirst(name, A_VIEW) ELSE name
             decoded == Unquote(cut)
             text == StripTags(decoded)
             base == IF Contains(text, <<"/">>) THEN SplitLast(text, "/") ELSE text
             trimmed == Strip(base)
         IN  IF EndsWith(trimmed, MP4) THEN trimmed ELSE trimmed \o MP4

-----------------------------------------------------------------------------
(* TopAnimeStrm: the series extractor and the episode ranker *)

\* The first place at or after i that holds no white space (Len(s) + 1 when
\* there is none): where a greedy \s* that starts at i ends.
SkipSpaces(s, i) ==
    LET stop == {j \in i..Len(s) : ~IsSpace(s[j])}
    IN  IF stop = {} THEN Len(s) + 1 ELSE CHOOSE j \in stop : \A k \in stop : j <= k

\* Where a greedy \d* that starts at i ends.
SkipDigits(s, i) ==
    LET stop == {j \in i..Len(s) : ~IsDigit(s[j])}
    IN  IF stop = {} THEN Len(s) + 1 ELSE CHOOSE j \in stop : \A k \in stop : j <= k

\* Whether . matches every character from i on, so that .*$ matches there.
DotStarToEnd(s, i) == \A j \in i..Len(s) : s[j] # "\n"

\* Whether r'\s*\[.*$' matches at i.
BracketAt(s, i) ==
    LET b == SkipSpaces(s, i)
    IN  b <= Len(s) /\ s[b] = "[" /\ DotStarToEnd(s, b + 1)

\* Whether r'\s*-\s*\d+\s*\[.*$' matches at i.
EpisodeTagAt(s, i) ==
    LET h == SkipSpaces(s, i)
        d == SkipSpaces(s, h + 1)
        e == SkipDigits(s, d)
    IN  /\ h <= Len(s) /\ s[h] = "-"
        /\ d <= Len(s) /\ IsDigit(s[d])
        /\ BracketAt(s, e)

\* re.sub(pattern, '', s) for a pattern that ends in .*$ : s is cut at the
\* leftmost place the pattern matches.
CutAtFirst(s, at) ==
    IF at = {} THEN s
    ELSE SubSeq(s, 1, (CHOOSE i \in at : \A j \in at : i <= j) - 1)

ANI_TAG == <<"[", "A", "N", "i", "]">>

\* _extract_anime_name
ExtractAnimeName(name) ==
    LET untagged == IF MatchesAt(name, 1, ANI_TAG)
                    THEN From(name, SkipSpaces(name, Len(ANI_TAG) + 1))
                    ELSE name
        series == CutAtFirst(untagged,
                      {i \in 1..Len(untagged) : EpisodeTagAt(untagged, i)})
        plain == CutAtFirst(series, {i \in 1..Len(series) : BracketAt(series, i)})
    IN  Strip(plain)

\* int(digits)
RECURSIVE IntOf(_)
IntOf(digits) ==
    IF digits = <<>> THEN 0
    ELSE 10 * IntOf(SubSeq(digits, 1, Len(digits) - 1)) + DigitVal(digits[Len(digits)])

\* _extract_episode_number: re.search(r'- (\d+)', filename)
ExtractEpisodeNumber(name) ==
    LET at == {i \in 1..Len(name) :
                  /\ MatchesAt(name, i, <<"-", " ">>)
                  /\ i + 2 <= Len(name)
                  /\ IsDigit(name[i + 2])}
    IN  IF at = {} THEN 0
        ELSE LET i == CHOOSE k \in at : \A j \in at : k <= j
             IN  IntOf(SubSeq(name, i + 2, SkipDigits(name, i + 2) - 1))

-----------------------------------------------------------------------------
(* TopAnimeStrm: the catalog aggregator *)

\* sorted_anime[:15]
TopN == 15

\* anime_series after the loop over video_files: the dict as the sequence of
\* its items in insertion order, each <<anime_name, episodes>>.
RECURSIVE GroupSeries(_, _)
GroupSeries(files, series) ==
    IF files = <<>> THEN series
    ELSE LET name == CleanFilename(Head(files))
             anime == ExtractAnimeName(name)
             at == {i \in 1..Len(series) : series[i][1] = anime}
         IN  IF name = <<>> \/ anime = <<>>
             THEN GroupSeries(Tail(files), series)
             ELSE IF at = {}
             THEN GroupSeries(Tail(files), Append(series, <<anime, <<name>> >>))
             ELSE LET i == CHOOSE k \in at : TRUE
                  IN  GroupSeries(Tail(files),
                          [series EXCEPT ![i] = <<anime, Append(series[i][2], name)>>])

\* The order sorted() gives the items whose keys are keys[1..n]: the
\* indices 1..n by ascending key, indices of equal keys in ascending order
\* (sorted() is stable).
RECURSIVE SortedOrder(_, _)
SortedOrder(keys, n) ==
    IF n = 0 THEN <<>>
    ELSE LET order == SortedOrder(keys, n - 1)
             later == {i \in 1..Len(order) : keys[n] < keys[order[i]]}
             at == IF later = {} THEN Len(order) + 1
                   ELSE CHOOSE i \in later : \A j \in later : i <= j
         IN  SubSeq(order, 1, at - 1) \o <<n>> \o SubSeq(order, at, Len(order))

\* sorted(items, key=...) for the keys given as a sequence beside the items
SortedByKey(items, keys) ==
    LET order == SortedOrder(Listed(keys), Len(items))
    IN  Listed([i \in 1..Len(items) |-> items[order[i]]])

\* Mutant of SortedAnime: an ascending sort read backwards, which ranks by
\* episode count descending but turns the order of equal counts around.
SortedAnime_TiesReversed(series) ==
    LET up == SortedByKey(series, [i \in 1..Len(series) |-> Len(series[i][2])])
    IN  Listed([i \in 1..Len(up) |-> up[Len(up) + 1 - i]])

\* sorted(anime_series.items(), key=lambda x: len(x[1]), reverse=True):
\* descending by key, and reverse=True keeps the input order of items whose
\* keys are equal, which is the ascending stable order of the negated keys.
SortedAnime(series) ==
    SortedByKey(series, [i \in 1..Len(series) |-> 0 - Len(series[i][2])])

\* Mutant of Top15Anime: the cut left out.
Top15Anime_NoCut(sorted) == sorted

\* sorted_anime[:15]
Top15Anime(sorted) == SubSeq(sorted, 1, IF Len(sorted) < TopN THEN Len(sorted) ELSE TopN)

\* Mutant of SortedEpisodes: the episodes left in the order of the listing.
SortedEpisodes_Unsorted(episodes) == episodes

\* sorted(episodes, key=lambda x: self._extract_episode_number(x))
SortedEpisodes(episodes) ==
    SortedByKey(episodes,
        [i \in 1..Len(episodes) |-> ExtractEpisodeNumber(episodes[i])])

\* cleaned_files after the loop over top15_anime
RECURSIVE Flatten(_)
Flatten(top) ==
    IF top = <<>> THEN <<>>
    ELSE SortedEpisodes(Head(top)[2]) \o Flatten(Tail(top))

\* _clean_and_get_top15
CleanAndGetTop15(files) ==
    Flatten(Top15Anime(SortedAnime(GroupSeries(files, <<>>))))

-----------------------------------------------------------------------------
(* TopAnimeStrm: the scraped-listing adapter. Each of its five layers goes  *)
(* through what one query of the rendered page gave and appends candidates  *)
(* to video_files.                                                          *)

Layers == 5

\* What a layer makes of one element: the candidate string, <<>> when the
\* layer passes the element over.
\*   1: src of a video element, kept when it ends with .mp4: src.split('/')[-1]
\*   2: href of a link, kept when it holds .mp4: href.split('/')[-1]
\*   3: data-filename of an element, kept when it holds .mp4
\*   4: a match of one of the patterns in the page source
\*   5: a match of the pattern in the text of the body
LayerCandidate(k, value) ==
    IF k = 1 THEN (IF EndsWith(value, MP4) THEN SplitLast(value, "/") ELSE <<>>)
    ELSE IF k = 2 THEN (IF Contains(value, MP4) THEN SplitLast(value, "/") ELSE <<>>)
    ELSE IF k = 3 THEN (IF Contains(value, MP4) THEN value ELSE <<>>)
    ELSE value

\* Whether s is one of the strings of list.
InList(list, s) == \E i \in 1..Len(list) : list[i] = s

\* video_files after a layer went through one element: layers 2 to 5 append
\* the candidate "if ... not in video_files", layer 1 appends it untested.
LayerAppend(k, files, value) ==
    LET candidate == LayerCandidate(k, value)
    IN  IF candidate = <<>> THEN files
        ELSE IF k > 1 /\ InList(files, candidate) THEN files
        ELSE Append(files, candidate)

-----------------------------------------------------------------------------
(* TopAnimeStrm: the feed-shape URL normalizer *)

D_TRUE == <<"?", "d", "=", "t", "r", "u", "e">>
D_MP4 == <<"?", "d", "=", "m", "p", "4">>
MP4_D_TRUE == MP4 \o D_TRUE

\* _is_url_format_valid
IsUrlFormatValid(url) == EndsWith(url, MP4_D_TRUE)

\* _convert_url_format
ConvertUrlFormat(url) ==
    IF Contains(url, D_MP4) THEN Replace(url, D_MP4, MP4_D_TRUE)
    ELSE IF EndsWith(url, MP4) THEN url \o D_TRUE
    ELSE url \o MP4_D_TRUE

\* __touch_strm_file, the else branch of "if not file_url"
FeedUrl(url) ==
    IF IsUrlFormatValid(url) THEN url ELSE ConvertUrlFormat(url)

-----------------------------------------------------------------------------
(* The descriptor writers *)

\* urllib.parse.quote(s, safe='.'): letters, digits and _ . - ~ stay, every
\* other ASCII character becomes % and its code in two upper-case hex digits.
IsUnreserved(c) ==
    \/ c \in {"_", ".", "-", "~"}
    \/ IsDigit(c)
    \/ IsAscii(c) /\ (Ord(c) \in 65..90 \/ Ord(c) \in 97..122)

RECURSIVE Quote(_)
Quote(s) ==
    IF s = <<>> THEN <<>>
    ELSE (IF IsUnreserved(s[1]) THEN <<s[1]>>
          ELSE <<"%", HexDigits[(Ord(s[1]) \div 16) + 1], HexDigits[(Ord(s[1]) % 16) + 1]>>)
         \o Quote(From(s, 2))

\* The literal 'https://openani.an-i.workers.dev/' of the season URL, held as
\* one element: no operation of the source looks inside it.
SEASON_BASE == <<"https://openani.an-i.workers.dev/">>

STRM == <<".", "s", "t", "r", "m">>

\* self._date once __get_ani_season has run: the year and the first month of
\* the current quarter.
SEASON == <<"2", "0", "2", "5", "-", "7">>

\* self._date before __get_ani_season has run: the class defines no _date, so
\* reading it raises AttributeError.
Unset == "unset"

\* The storage directory the operator configured (both plugins): storageplace.
StoragePlace == <<"/", "s">>

\* __touch_strm_file: whether computing src_url raises (self._date is read in
\* the f-string and was never assigned).
TouchRaises(url, date) == url = <<>> /\ date = Unset

\* __touch_strm_file: src_url
TouchSrcUrl(name, url, date) ==
    IF url = <<>>
    THEN SEASON_BASE \o date \o <<"/">> \o Quote(name) \o D_TRUE
    ELSE FeedUrl(url)

\* __touch_strm_file: file_path
TouchPath(name) == StoragePlace \o <<"/">> \o CleanFilename(name) \o STRM

\* What a failed write leaves of the content in the file that open(path, 'w')
\* created: nothing, or a proper prefix.
Written(content, write) ==
    IF write = "ok" THEN content
    ELSE IF write = "part" /\ Len(content) > 1
    THEN SubSeq(content, 1, Len(content) - 1)
    ELSE <<>>

\* try: with open(file_path, 'w') as file: file.write(src_url) ... return True
\* except Exception: return False
\* on the directory state (files, dir): open fails when the directory is
\* missing or io.open says so (permission denied), the write fails when
\* io.write is not "ok" (disk full).
OpenAndWrite(files, dir, path, content, io) ==
    IF ~dir \/ io.open = "fails"
    THEN [fs |-> files, ret |-> "not created", io_failed |-> TRUE]
    ELSE [fs |-> (path :> Written(content, io.write)) @@ files,
          ret |-> IF io.write = "ok" THEN "created" ELSE "not created",
          io_failed |-> io.write # "ok"]

\* __touch_strm_file
TouchStrmFile(files, dir, date, name, url, io) ==
    IF TouchRaises(url, date)
    THEN [fs |-> files, ret |-> "raised", io_failed |-> FALSE]
    ELSE IF TouchPath(name) \in DOMAIN files
    THEN [fs |-> files, ret |-> "not created", io_failed |-> FALSE]
    ELSE OpenAndWrite(files, dir, TouchPath(name), TouchSrcUrl(name, url, date), io)

\* VideoStrm._sanitize_filename: re.sub(r'[<>:"/\\|?*]', '', filename), then
\* ' '.join(filename.split()), then the first 200 characters.
RECURSIVE DropIllegal(_)
DropIllegal(s) ==
    IF s = <<>> THEN <<>>
    ELSE (IF s[1] \in {"<", ">", ":", "\"", "/", "\\", "|", "?", "*"} THEN <<>> ELSE <<s[1]>>)
         \o DropIllegal(From(s, 2))

RECURSIVE JoinWords(_)
JoinWords(s) ==
    LET t == From(s, SkipSpaces(s, 1))
        ends == {j \in 1..Len(t) : IsSpace(t[j])}
        stop == IF ends = {} THEN Len(t) + 1 ELSE CHOOSE j \in ends : \A k \in ends : j <= k
        rest == JoinWords(From(t, stop))
    IN  IF t = <<>> THEN <<>>
        ELSE SubSeq(t, 1, stop - 1) \o (IF rest = <<>> THEN <<>> ELSE <<" ">> \o rest)

MaxFilenameLen == 200

SanitizeFilename(title) ==
    LET joined == JoinWords(DropIllegal(title))
    IN  IF Len(joined) > MaxFilenameLen THEN SubSeq(joined, 1, MaxFilenameLen) ELSE joined

\* os.path.join(a, b)
PathJoin(a, b) ==
    IF b # <<>> /\ b[1] = "/" THEN b
    ELSE IF a = <<>> \/ a[Len(a)] = "/" THEN a \o b
    ELSE a \o <<"/">> \o b

\* create_strm_file: file_path
CreatePath(place, title, code) ==
    PathJoin(place, (IF code # <<>> THEN code ELSE SanitizeFilename(title)) \o STRM)

\* create_strm_file. os.makedirs(self._storageplace, exist_ok=True) stands
\* outside the try: it returns when the directory exists or could be made and
\* raises OSError otherwise (io.makedirs = "fails").
CreateStrmFile(files, dir, place, title, url, code, io) ==
    IF place = <<>>
    THEN [fs |-> files, dir |-> dir, ret |-> "not created", io_failed |-> FALSE]
    ELSE IF ~dir /\ io.makedirs = "fails"
    THEN [fs |-> files, dir |-> dir, ret |-> "raised", io_failed |-> TRUE]
    ELSE IF CreatePath(place, title, code) \in DOMAIN files
    THEN [fs |-> files, dir |-> TRUE, ret |-> "not created", io_failed |-> FALSE]
    ELSE [dir |-> TRUE] @@ OpenAndWrite(files, TRUE, CreatePath(place, title, code), url, io)

-----------------------------------------------------------------------------
(* The retry decorator *)

\* @retry(Exception, tries=3, logger=logger, ret=[]); delay and backoff keep
\* their defaults.
Tries == 3
Delay == 3
Backoff == 1

NoRetry == [mtries |-> 0, mdelay |-> 0, state |-> "none", value |-> <<>>,
            attempts |-> <<>>, slept |-> <<>>]

\* f_retry: mtries, mdelay = tries, delay. attempts and slept are the
\* history of the call: what every invocation of f did, and every
\* time.sleep() made.
RetryEnter == [mtries |-> Tries, mdelay |-> Delay, state |-> "calling", value |-> <<>>,
               attempts |-> <<>>, slept |-> <<>>]

\* One pass of "while mtries > 0" for an f that returned value.
RetryReturned(r, value) ==
    [r EXCEPT !.state = "returned", !.value = value,
              !.attempts = Append(r.attempts, "returned")]

\* The except branch without "mtries -= 1"
RetryRaised_NoCountdown(r) ==
    [r EXCEPT !.mdelay = r.mdelay * Backoff,
              !.attempts = Append(r.attempts, "raised"),
              !.slept = Append(r.slept, r.mdelay)]

\* One pass of "while mtries > 0" for an f that raised: sleep, count down,
\* and, when the condition of the loop fails after it, return ret.
RetryRaised(r) ==
    [r EXCEPT !.mtries = r.mtries - 1,
              !.mdelay = r.mdelay * Backoff,
              !.state = IF r.mtries - 1 > 0 THEN "calling" ELSE "exhausted",
              !.value = <<>>,
              !.attempts = Append(r.attempts, "raised"),
              !.slept = Append(r.slept, r.mdelay)]

-----------------------------------------------------------------------------
(* TopAnimeStrm: the plugin, its scheduler and the runs of __task *)

\* The two jobs init_plugin registers: the recurring cron job and the
\* one-shot date job.
Jobs == {"cron", "once"}

\* A job that is not running __task.
IdleRun == [pc |-> "idle", fulladd |-> FALSE, rt |-> NoRetry, fetched |-> "none",
            items |-> <<>>, idx |-> 1, src |-> <<>>, cnt |-> 0, ret |-> "none"]

\* self._scheduler = None
NoScheduler == [exists |-> FALSE, running |-> FALSE, cron_job |-> FALSE, once_job |-> "none"]

\* Whether a job's run of __task is under way.
Active(r) == r.pc \in {"fetch", "loop", "write"}

\* Mutant of CronJobAdded: the expression handed to add_job unvalidated.
CronJobAdded_Unvalidated(a) == a.enabled /\ a.cron # "none"

\* init_plugin: whether the cron job is added. CronTrigger.from_crontab
\* raises for an invalid expression, inside the try.
CronJobAdded(a) == a.enabled /\ a.cron = "valid"

\* Mutant of OnceCleared: the switches left as they were.
OnceCleared_FlagsKept(a) == a

\* init_plugin: the attributes after "if self._onlyonce:" added the date job
OnceCleared(a) ==
    IF a.onlyonce THEN [a EXCEPT !.onlyonce = FALSE, !.fulladd = FALSE] ELSE a

\* init_plugin after stop_service(), for a config that is not given (None or
\* empty: "if config" fails and the attributes stay) or is a dict. It gives the
\* attributes, the configuration saved by __update_config and the scheduler.
\* CronTrigger.from_crontab raises for an invalid expression, which is
\* caught; the date job carries args=[self._fulladd].
InitPluginResult(attrs, old, given, config) ==
    LET a == IF given THEN config ELSE attrs
        scheduled == a.enabled \/ a.onlyonce
        cron_job == CronJobAdded(a)
        once_job == IF ~a.onlyonce THEN "none"
                    ELSE IF a.fulladd THEN "full" ELSE "incremental"
        after == OnceCleared(a)
    IN  IF ~scheduled
        THEN [attrs |-> a, saved |-> old, scheduler |-> NoScheduler]
        ELSE [attrs |-> after, saved |-> after,
              scheduler |-> [exists |-> TRUE,
                             running |-> cron_job \/ once_job # "none",
                             cron_job |-> cron_job,
                             once_job |-> once_job]]

\* Mutant of CronJobMode: the cron job given args=[self._fulladd] like the
\* date job.
CronJobMode_StoredFlag(attrs) == attrs.fulladd

\* The fulladd of a run of the cron job: add_job(func=self.__task, ...) gives
\* no args, so __task runs with its default, fulladd=False, whatever the
\* attributes are when the trigger fires.
CronJobMode(attrs) == FALSE

\* __task: cnt = 0, and the entry of the wrapped fetch
TaskEnter(fulladd) ==
    [pc |-> "fetch", fulladd |-> fulladd, rt |-> RetryEnter, fetched |-> "none",
     items |-> <<>>, idx |-> 1, src |-> <<>>, cnt |-> 0, ret |-> "none"]

\* __task after one pass of the retry loop left the wrapped fetch in state
\* r: the loop over the list starts once the fetch has returned. fetched
\* keeps how the request of that pass went: "feed" or "page" when it
\* answered, "error" when it raised, "skipped" when none was made.
TaskFetched(t, r, fetched) ==
    IF r.state = "calling" THEN [t EXCEPT !.rt = r, !.fetched = fetched]
    ELSE [t EXCEPT !.rt = r, !.fetched = fetched,
                   !.pc = "loop", !.items = r.value, !.idx = 1]

\* get_current_season_list: how the request for the season page went
SeasonFetched(available, page) ==
    IF ~available THEN "skipped" ELSE IF page = "error" THEN "error" ELSE "page"

\* get_current_season_list: [] without Playwright; with it, [] when the page
\* fetch raised inside the try (page = "error"), else the aggregated names
\* of the candidates the page gave. Each name is passed to __touch_strm_file
\* with file_url=None.
SeasonList(available, page) ==
    IF ~available \/ page = "error" THEN <<>>
    ELSE LET names == CleanAndGetTop15(page)
         IN  Listed([i \in 1..Len(names) |-> [title |-> names[i], link |-> <<>>]])

\* __touch_strm_file up to "if os.path.exists(file_path)" for the item at
\* idx: it raises, returns False, or goes on to open the file.
TaskCheck(t, files, date) ==
    LET item == t.items[t.idx]
    IN  IF TouchRaises(item.link, date) THEN [t EXCEPT !.pc = "raised", !.ret = "raised"]
        ELSE IF TouchPath(item.title) \in DOMAIN files
        THEN [t EXCEPT !.ret = "not created", !.idx = t.idx + 1]
        ELSE [t EXCEPT !.pc = "write", !.src = TouchSrcUrl(item.title, item.link, date)]

\* __task after __touch_strm_file returned ret for the item at idx:
\* "if ...: cnt += 1", and on to the next item.
TaskWritten(t, ret) ==
    [t EXCEPT !.pc = "loop", !.ret = ret, !.idx = t.idx + 1, !.src = <<>>,
              !.cnt = IF ret = "created" THEN t.cnt + 1 ELSE t.cnt]

\* __task after the loop: the count is logged and the thread ends.
TaskReported(t) ==
    [IdleRun EXCEPT !.pc = "reported", !.fulladd = t.fulladd, !.cnt = t.cnt]

-----------------------------------------------------------------------------
(* Bounded inputs: strings made of at most MaxTokens tokens *)

\* Concatenations of at most n of the strings in toks.
RECURSIVE Concats(_, _)
Concats(toks, n) ==
    IF n = 0 THEN {<<>>}
    ELSE LET shorter == Concats(toks, n - 1)
         IN  shorter \cup {s \o t : s \in shorter, t \in toks}

MaxUrlTokens == 3

UrlTokens == {<<"h">>, <<"/">>, MP4, D_MP4, D_TRUE, <<"&">>}

UrlInputs == Concats(UrlTokens, MaxUrlTokens) \ {<<>>}

-----------------------------------------------------------------------------
(* The values the variables keep in the specifications that do not use them *)

IdleUrl == file_url = <<>> /\ src_url = <<>> /\ url_pc = "idle"
IdleClean ==
    filename = <<>> /\ clean_name = <<>> /\ clean_file_name = <<>> /\ clean_pc = "idle"

IdleAgg == video_files = <<>> /\ cleaned_files = <<>> /\ agg_pc = "idle"
IdleScrape == layer = 0 /\ nfound = 0 /\ discovered = <<>>
NoCall == [op |-> "none", path |-> <<>>, ret |-> "none", io_failed |-> FALSE]
IdleDir == fs = <<>> /\ dir_exists = FALSE /\ _date = Unset
IdleCall == _storageplace = <<>> /\ last = NoCall /\ ncalls = 0
IdleWriter == IdleDir /\ IdleCall
NoConfig == [enabled |-> FALSE, cron |-> "none", onlyonce |-> FALSE, fulladd |-> FALSE]
NotCalled == [given |-> FALSE, config |-> NoConfig]
IdlePlugin ==
    /\ PLAYWRIGHT_AVAILABLE = FALSE
    /\ _enabled = FALSE /\ _cron = "none" /\ _onlyonce = FALSE /\ _fulladd = FALSE
    /\ saved = NoConfig
    /\ _scheduler = NoScheduler
    /\ run = [j \in Jobs |-> IdleRun]
    /\ init_config = NotCalled
    /\ ninit = 0 /\ ncron = 0
IdleNotUrl == IdleClean /\ IdleAgg /\ IdleScrape /\ IdleWriter /\ IdlePlugin
IdleNotClean == IdleUrl /\ IdleAgg /\ IdleScrape /\ IdleWriter /\ IdlePlugin
IdleNotAgg == IdleUrl /\ IdleClean /\ IdleScrape /\ IdleWriter /\ IdlePlugin
IdleNotWriter == IdleUrl /\ IdleClean /\ IdleAgg /\ IdleScrape /\ IdlePlugin
IdleNotPlugin == IdleUrl /\ IdleClean /\ IdleAgg /\ IdleScrape /\ IdleCall
IdleNotScrape ==
    /\ IdleUrl /\ IdleClean /\ IdleWriter /\ IdlePlugin
    /\ cleaned_files = <<>> /\ agg_pc = "idle"

-----------------------------------------------------------------------------
(* Specification SpecUrl: one feed link through the URL normalizer *)

InitUrl ==
    /\ file_url \in UrlInputs
    /\ src_url = <<>>
    /\ url_pc = "start"
    /\ IdleNotUrl

NormalizeFeedUrl ==
    /\ url_pc = "start"
    /\ src_url' = FeedUrl(file_url)
    /\ url_pc' = "done"
    /\ UNCHANGED <<file_url, notUrl>>

NextUrl == NormalizeFeedUrl

SpecUrl == InitUrl /\ [][NextUrl]_vars

\* C4: every canonical URL the feed-shape normalizer produces ends with the
\* literal suffix .mp4?d=true.
C4_FeedUrlEndsWithSuffix ==
    url_pc = "done" => EndsWith(src_url, MP4_D_TRUE)

-----------------------------------------------------------------------------
(* Specification SpecClean: one raw name through the name normalizer, as    *)
(* _clean_and_get_top15 applies it, and its result through the normalizer   *)
(* again, as __touch_strm_file applies it to the name it is given.          *)

MaxNameTokens == 3

NameTokens ==
    { <<"x">>, <<"4", "1">>, <<"%", "2", "5">>, <<"%", "3", "F">>,
      <<"a", "=", "v", "i", "e", "w">>, A_VIEW, <<"/">>, <<"<">>, <<">">>,
      <<" ">>, MP4 }

NameInputs == Concats(NameTokens, MaxNameTokens)

InitClean ==
    /\ filename \in NameInputs
    /\ clean_name = <<>>
    /\ clean_file_name = <<>>
    /\ clean_pc = "start"
    /\ IdleNotClean

\* clean_name = self._clean_filename(filename)
CleanOnce ==
    /\ clean_pc = "start"
    /\ clean_name' = CleanFilename(filename)
    /\ clean_pc' = "cleaned"
    /\ UNCHANGED <<filename, clean_file_name, notClean>>

\* clean_file_name = self._clean_filename(file_name), file_name the name above
CleanAgain ==
    /\ clean_pc = "cleaned"
    /\ clean_file_name' = CleanFilename(clean_name)
    /\ clean_pc' = "recleaned"
    /\ UNCHANGED <<filename, clean_name, notClean>>

NextClean == CleanOnce \/ CleanAgain

SpecClean == InitClean /\ [][NextClean]_vars

\* C8: name normalization is idempotent: normalizing a normalized name gives
\* the same name, so the writer uses an aggregated name unchanged.
C8_CleanFilenameIdempotent ==
    clean_pc = "recleaned" => clean_file_name = clean_name

\* C18: the result of _clean_filename ends with .mp4 or is empty, and it is
\* empty only for the empty input.
C18_CleanEndsWithExtension ==
    clean_pc # "start" =>
        /\ EndsWith(clean_name, MP4) \/ clean_name = <<>>
        /\ clean_name = <<>> => filename = <<>>

\* C18 witness: nothing of a name without the extension was left, and the
\* result is the extension alone.
C18_Witness ==
    /\ clean_pc = "cleaned"
    /\ filename # <<>> /\ ~EndsWith(filename, MP4)
    /\ clean_name = MP4

-----------------------------------------------------------------------------
(* Specification SpecAgg: the candidates of one scraped season page through *)
(* the catalog aggregator. The page lists BaseSeries series with one        *)
(* episode each, followed by at most MaxTail further candidates.            *)

BaseSeries == 14
MaxTail == 3

SeriesLetters ==
    <<"A", "B", "C", "D", "E", "F", "G", "H", "I", "J", "K", "L", "M", "N", "O", "P">>

\* The file name the season page gives episode ep of a series.
EpisodeFile(series, ep) ==
    <<series, " ", "-", " ">> \o ep \o <<" ", "[", "P", "]">> \o MP4

BaseFiles == [i \in 1..BaseSeries |-> EpisodeFile(SeriesLetters[i], <<"1">>)]

TailCandidates ==
    { EpisodeFile("X", <<"1">>),
      EpisodeFile("Y", <<"2">>),
      EpisodeFile("Y", <<"1">>),
      EpisodeFile("B", <<"2">>),
      <<"d", "/">> \o EpisodeFile("X", <<"1">>) \o A_VIEW,
      <<"[", "P", "]">>,
      <<>> }

InitAgg ==
    /\ video_files = BaseFiles
    /\ cleaned_files = <<>>
    /\ agg_pc = "scraping"
    /\ IdleNotAgg

\* video_files.append(...): the scrape finds one more candidate
Discover ==
    /\ agg_pc = "scraping"
    /\ Len(video_files) < BaseSeries + MaxTail
    /\ \E raw \in TailCandidates : video_files' = Append(video_files, raw)
    /\ UNCHANGED <<cleaned_files, agg_pc, notAgg>>

\* cleaned_files = self._clean_and_get_top15(video_files)
Aggregate ==
    /\ agg_pc = "scraping"
    /\ cleaned_files' = CleanAndGetTop15(video_files)
    /\ agg_pc' = "aggregated"
    /\ UNCHANGED <<video_files, notAgg>>

NextAgg == Discover \/ Aggregate

SpecAgg == InitAgg /\ [][NextAgg]_vars

\* What the claims about the aggregator speak of, read off its input and its
\* output: the series key of each candidate that is grouped, each key's
\* episode count and the place it was first seen, and the key of each name
\* that came out.
AggFacts ==
    LET names == Listed([i \in 1..Len(video_files) |-> CleanFilename(video_files[i])])
        keys == Listed([i \in 1..Len(video_files) |-> ExtractAnimeName(names[i])])
        grouped == {i \in 1..Len(video_files) : names[i] # <<>> /\ keys[i] # <<>>}
    IN  [ keys |-> keys,
          grouped |-> grouped,
          inKeys |-> {keys[i] : i \in grouped},
          out |-> Listed([i \in 1..Len(cleaned_files) |->
                             ExtractAnimeName(cleaned_files[i])]) ]

EpisodeCount(f, k) == Cardinality({i \in f.grouped : f.keys[i] = k})

FirstSeen(f, k) ==
    CHOOSE i \in f.grouped :
        f.keys[i] = k /\ \A j \in f.grouped : f.keys[j] = k => i <= j

OutputKeys(f) == {f.out[i] : i \in 1..Len(f.out)}

RanksBefore(f, k, g) ==
    \/ EpisodeCount(f, k) > EpisodeCount(f, g)
    \/ EpisodeCount(f, k) = EpisodeCount(f, g) /\ FirstSeen(f, k) < FirstSeen(f, g)

\* C9: the aggregator's output holds names of at most 15 distinct series keys,
\* and they are the keys of the 15 groups with the most episodes.
C9_AtMostTop15Series ==
    agg_pc = "aggregated" =>
        LET f == AggFacts
            outKeys == OutputKeys(f)
        IN  /\ Cardinality(outKeys) <= 15
            /\ outKeys \subseteq f.inKeys
            /\ Cardinality(outKeys) =
                   (IF Cardinality(f.inKeys) < 15 THEN Cardinality(f.inKeys) ELSE 15)
            /\ \A k \in outKeys : \A g \in f.inKeys \ outKeys :
                   EpisodeCount(f, k) >= EpisodeCount(f, g)

\* C9 witness: more than 15 series were listed and 15 of them came out.
C9_Witness ==
    /\ agg_pc = "aggregated"
    /\ Cardinality(AggFacts.inKeys) > 15
    /\ Cardinality(OutputKeys(AggFacts)) = 15

\* C10: groups are ranked by episode count descending, ties by the order in
\* which the keys were first seen: every group that survives the cut ranks
\* before every group that does not, and the output lists the groups in rank
\* order.
C10_RankedByCountThenFirstSeen ==
    agg_pc = "aggregated" =>
        LET f == AggFacts
            outKeys == OutputKeys(f)
        IN  /\ \A k \in outKeys : \A g \in f.inKeys \ outKeys : RanksBefore(f, k, g)
            /\ \A i, j \in 1..Len(cleaned_files) :
                   i < j => f.out[i] = f.out[j] \/ RanksBefore(f, f.out[i], f.out[j])

\* C10 witness: two groups tie in episode count at the cut, one kept and one
\* dropped, and a group seen later outranks groups seen before it.
C10_Witness ==
    /\ agg_pc = "aggregated"
    /\ LET f == AggFacts
           outKeys == OutputKeys(f)
       IN  /\ \E k \in outKeys : \E g \in f.inKeys \ outKeys :
                  EpisodeCount(f, k) = EpisodeCount(f, g)
           /\ \E k, g \in outKeys :
                  /\ EpisodeCount(f, k) > EpisodeCount(f, g)
                  /\ FirstSeen(f, k) > FirstSeen(f, g)

-----------------------------------------------------------------------------
(* Specification SpecEpisodes: a season page that lists at most             *)
(* MaxCandidates candidates, episodes of the series A and B, through the    *)
(* catalog aggregator.                                                      *)

MaxCandidates == 3

\* An episode the way the page lists it when no tag follows the number.
PlainEpisodeFile(series, ep) == <<series, " ", "-", " ">> \o ep \o MP4

EpisodeCandidates ==
    { PlainEpisodeFile("A", <<"1">>),
      PlainEpisodeFile("A", <<"2">>),
      PlainEpisodeFile("B", <<"1">>),
      EpisodeFile("A", <<"2">>),
      EpisodeFile("A", <<"1">>),
      <<"A", " ", "-", " ", "1", " ", "[", "Q", "]">> \o MP4,
      <<"A", " ", "[", "P", "]">> \o MP4,
      <<"A", "-", "0", "3">> \o MP4,
      <<"d", "/">> \o EpisodeFile("A", <<"1">>) \o A_VIEW }

InitEpisodes ==
    /\ video_files = <<>>
    /\ cleaned_files = <<>>
    /\ agg_pc = "scraping"
    /\ IdleNotAgg

\* video_files.append(...): the scrape finds one more candidate
Scrape ==
    /\ agg_pc = "scraping"
    /\ Len(video_files) < MaxCandidates
    /\ \E raw \in EpisodeCandidates : video_files' = Append(video_files, raw)
    /\ UNCHANGED <<cleaned_files, agg_pc, notAgg>>

NextEpisodes == Scrape \/ Aggregate

SpecEpisodes == InitEpisodes /\ [][NextEpisodes]_vars

\* The names that went into the aggregator and the names that came out of
\* it, each with its series key and its episode number.
Episode(name) ==
    [name |-> name, key |-> ExtractAnimeName(name), number |-> ExtractEpisodeNumber(name)]

ListedEpisodes ==
    Listed([i \in 1..Len(video_files) |-> Episode(CleanFilename(video_files[i]))])

OutputEpisodes ==
    Listed([i \in 1..Len(cleaned_files) |-> Episode(cleaned_files[i])])

\* The names of series key k and episode number n in a sequence of episodes,
\* in the order they stand there.
NamesOf(episodes, k, n) ==
    LET Selected(e) == e.key = k /\ e.number = n
        sel == SelectSeq(episodes, Selected)
    IN  Listed([i \in 1..Len(sel) |-> sel[i].name])

\* Whether name stands in the listing and nowhere before place i of it.
FirstListedAt(listed, name, i) ==
    /\ i \in 1..Len(listed) /\ listed[i].name = name
    /\ \A j \in 1..(i - 1) : listed[j].name # name

\* C11: in the output the episodes of a series are contiguous and in
\* non-decreasing order of episode number (0 for a name without one), and the
\* names of equal number stand in the order of the input.
C11_EpisodesOrderedWithinGroup ==
    agg_pc = "aggregated" =>
        LET in == ListedEpisodes
            out == OutputEpisodes
        IN  /\ \A i, j, k \in 1..Len(out) :
                   i < j /\ j < k /\ out[i].key = out[k].key => out[j].key = out[i].key
            /\ \A i, j \in 1..Len(out) :
                   i < j /\ out[i].key = out[j].key => out[i].number <= out[j].number
            /\ \A i \in 1..Len(out) :
                   NamesOf(out, out[i].key, out[i].number)
                       = NamesOf(in, out[i].key, out[i].number)

\* C11 witness: a name without a number came out before the numbered names
\* of its series that were listed before it, and two different names of one
\* number came out in the order they were listed.
C11_Witness ==
    /\ agg_pc = "aggregated"
    /\ LET in == ListedEpisodes
           out == OutputEpisodes
       IN  /\ \E i, j \in 1..Len(out) :
                  /\ i < j /\ out[i].key = out[j].key
                  /\ out[i].number = 0 /\ out[j].number > 0
                  /\ \E a, b \in 1..Len(in) :
                         /\ b < a
                         /\ FirstListedAt(in, out[i].name, a)
                         /\ FirstListedAt(in, out[j].name, b)
           /\ \E i, j \in 1..Len(out) :
                  /\ i < j /\ out[i].key = out[j].key
                  /\ out[i].number = out[j].number /\ out[i].name # out[j].name

\* The places of a name where an episode number stands: " - " and a digit.
EpisodeMarks(name) ==
    {i \in 1..Len(name) :
        /\ MatchesAt(name, i, <<" ", "-", " ">>)
        /\ i + 3 <= Len(name) /\ IsDigit(name[i + 3])}

\* The title a name carries before its episode number.
TitleBeforeEpisode(name) ==
    SubSeq(name, 1, (CHOOSE i \in EpisodeMarks(name) : \A j \in EpisodeMarks(name) : i <= j) - 1)

\* Scenario 3 of the aggregator
Scenario3 ==
    << PlainEpisodeFile("A", <<"1">>), PlainEpisodeFile("A", <<"2">>),
       PlainEpisodeFile("B", <<"1">>) >>

\* C12: two names of one series that differ only in what follows the title
\* (episode number, quality tags) get the same series key, so that the
\* listing of scenario 3 forms a group of 2 episodes ranked above a group of
\* 1 episode.
C12_SeriesKeyPrefixStable ==
    agg_pc = "aggregated" =>
        LET in == ListedEpisodes
        IN  /\ \A i, j \in 1..Len(in) :
                   (/\ EpisodeMarks(in[i].name) # {} /\ EpisodeMarks(in[j].name) # {}
                    /\ TitleBeforeEpisode(in[i].name) = TitleBeforeEpisode(in[j].name))
                   => in[i].key = in[j].key
            /\ video_files = Scenario3 =>
                   LET ranked == SortedAnime(GroupSeries(video_files, <<>>))
                   IN  /\ Len(ranked) = 2
                       /\ Len(ranked[1][2]) = 2
                       /\ Len(ranked[2][2]) = 1

\* Where the digits start that follow a hyphen and at most one space at
\* place i of a name, 0 when no digit stands there.
DigitsAfterHyphen(name, i) ==
    IF i > Len(name) \/ name[i] # "-" THEN 0
    ELSE IF i + 1 <= Len(name) /\ IsDigit(name[i + 1]) THEN i + 1
    ELSE IF i + 2 <= Len(name) /\ name[i + 1] = " " /\ IsDigit(name[i + 2]) THEN i + 2
    ELSE 0

\* The number in the first occurrence in a name of a hyphen, an optional
\* space and digits; 0 when there is no occurrence.
HyphenNumber(name) ==
    LET at == {i \in 1..Len(name) : DigitsAfterHyphen(name, i) > 0}
    IN  IF at = {} THEN 0
        ELSE LET d == DigitsAfterHyphen(name, CHOOSE i \in at : \A j \in at : i <= j)
             IN  IntOf(SubSeq(name, d, SkipDigits(name, d) - 1))

\* C19: the episode number of a name is the number in its first occurrence
\* of a hyphen, an optional space and digits, and 0 without an occurrence.
C19_EpisodeNumberOfHyphenDigits ==
    agg_pc = "aggregated" =>
        \A i \in 1..Len(cleaned_files) :
            ExtractEpisodeNumber(cleaned_files[i]) = HyphenNumber(cleaned_files[i])

\* C14: the output of the aggregator holds every name at most once.
C14_OutputHasNoDuplicate ==
    agg_pc = "aggregated" =>
        \A i, j \in 1..Len(cleaned_files) :
            cleaned_files[i] = cleaned_files[j] => i = j

-----------------------------------------------------------------------------
(* Specification SpecScrape: get_current_season_list builds video_files    *)
(* from a rendered page on which each query finds at most MaxFound          *)
(* elements.                                                                *)

MaxFound == 2

X_MP4 == <<"x">> \o MP4
Y_MP4 == <<"y">> \o MP4

\* What the query of layer k may give for one element of the page.
PageValues(k) ==
    IF k = 1 THEN {<<"a", "/">> \o X_MP4, <<"b", "/">> \o X_MP4, Y_MP4, <<"x">>}
    ELSE IF k = 2 THEN {<<"a", "/">> \o X_MP4, Y_MP4 \o <<"?", "d", "=", "1">>}
    ELSE IF k = 3 THEN {X_MP4, <<"x">>}
    ELSE IF k = 4 THEN {X_MP4, <<"a", "/">> \o X_MP4}
    ELSE {X_MP4, Y_MP4}

InitScrape ==
    /\ video_files = <<>>
    /\ layer = 1 /\ nfound = 0 /\ discovered = <<>>
    /\ IdleNotScrape

\* One pass of the loop of layer k over what its query found: "for video in
\* video_elements", "for link in links", "for element in
\* elements_with_data", "for match in matches", "for match in mp4_matches".
LayerStep(k) ==
    /\ layer = k
    /\ nfound < MaxFound
    /\ \E value \in PageValues(k) :
          /\ video_files' = LayerAppend(k, video_files, value)
          /\ discovered' = IF LayerCandidate(k, value) = <<>> THEN discovered
                            ELSE Append(discovered, LayerCandidate(k, value))
    /\ nfound' = nfound + 1
    /\ UNCHANGED <<layer, notScrape>>

\* The loop of a layer ends and the next query is made.
LayerDone ==
    /\ layer \in 1..Layers
    /\ layer' = layer + 1
    /\ nfound' = 0
    /\ UNCHANGED <<video_files, discovered, notScrape>>

NextScrape ==
    \/ \E k \in 1..Layers : LayerStep(k)
    \/ LayerDone

SpecScrape == InitScrape /\ [][NextScrape]_vars

\* The strings of a sequence, each at the place it first stands.
RECURSIVE FirstOccurrences(_)
FirstOccurrences(seq) ==
    IF seq = <<>> THEN <<>>
    ELSE LET front == FirstOccurrences(SubSeq(seq, 1, Len(seq) - 1))
         IN  IF InList(front, seq[Len(seq)]) THEN front
             ELSE Append(front, seq[Len(seq)])

\* C15: the candidate list holds no string twice, and holds every string the
\* layers came upon at the place of its first discovery.
C15_CandidatesDistinctFirstSeen ==
    /\ \A i, j \in 1..Len(video_files) : video_files[i] = video_files[j] => i = j
    /\ video_files = FirstOccurrences(discovered)

-----------------------------------------------------------------------------
(* Specification SpecWriter: one sequential caller makes at most MaxCalls   *)
(* calls of the two descriptor writers on one storage directory.            *)

MaxCalls == 3

TouchNames == {<<>>, <<"a">>, <<"a">> \o MP4, <<"b", " ", "c">>}
TouchUrls == {<<>>, <<"u">> \o MP4_D_TRUE, <<"v">> \o D_MP4}
VideoTitles == {<<"a">> \o MP4, <<"t", ":", " ", " ", "x">>}
VideoCodes == {<<>>, <<"T", "-", "1">>}
VideoUrls == {<<"h", "/", "m">>, <<"h", "/", "n">>}

\* What the file system may do to one call.
IOs == [makedirs : {"ok", "fails"}, open : {"ok", "fails"}, write : {"ok", "none", "part"}]

InitWriter ==
    /\ fs = <<>>
    /\ dir_exists \in BOOLEAN
    /\ _date \in {Unset, SEASON}
    /\ _storageplace \in {<<>>, StoragePlace}
    /\ last = NoCall
    /\ ncalls = 0
    /\ IdleNotWriter

\* self.__touch_strm_file(file_name=name, file_url=url)
Touch ==
    /\ ncalls < MaxCalls
    /\ \E name \in TouchNames, url \in TouchUrls, io \in IOs :
          LET r == TouchStrmFile(fs, dir_exists, _date, name, url, io)
          IN  /\ fs' = r.fs
              /\ last' = [op |-> "touch", path |-> TouchPath(name),
                          ret |-> r.ret, io_failed |-> r.io_failed]
    /\ ncalls' = ncalls + 1
    /\ UNCHANGED <<dir_exists, _date, _storageplace, notWriter>>

\* self.create_strm_file(title=title, source_url=url, code=code)
Create ==
    /\ ncalls < MaxCalls
    /\ \E title \in VideoTitles, url \in VideoUrls, code \in VideoCodes, io \in IOs :
          LET r == CreateStrmFile(fs, dir_exists, _storageplace, title, url, code, io)
          IN  /\ fs' = r.fs
              /\ dir_exists' = r.dir
              /\ last' = [op |-> "create",
                          path |-> CreatePath(_storageplace, title, code),
                          ret |-> r.ret, io_failed |-> r.io_failed]
    /\ ncalls' = ncalls + 1
    /\ UNCHANGED <<_date, _storageplace, notWriter>>

NextWriter == Touch \/ Create

SpecWriter == InitWriter /\ [][NextWriter]_vars

\* C1: a descriptor is write-once: once a file exists at a path, every later
\* call for that path returns "not created" and leaves the content unchanged.
C1_WriteOnce ==
    [][\A p \in DOMAIN fs :
          /\ p \in DOMAIN fs' /\ fs'[p] = fs[p]
          /\ last'.path = p => last'.ret = "not created"]_vars

\* C7: a call during which an I/O operation failed returns "not created"; the
\* failure is never raised to the caller.
C7_IOFailureNotRaised ==
    last.io_failed => last.ret = "not created"

\* The URLs the calls may write: the source_url of create_strm_file and the
\* src_url of __touch_strm_file.
CompleteUrls ==
    VideoUrls \cup {TouchSrcUrl(name, url, SEASON) : name \in TouchNames, url \in TouchUrls}

\* C20: every file of the storage directory holds the complete URL of a
\* call, and a call that returned "not created" because of an I/O failure
\* left no file at its path.
C20_NoPartialDescriptor ==
    /\ \A p \in DOMAIN fs : fs[p] \in CompleteUrls
    /\ (last.io_failed /\ last.ret = "not created") => last.path \notin DOMAIN fs

-----------------------------------------------------------------------------
(* Specification Spec: the TopAnimeStrm plugin. The host calls init_plugin  *)
(* at most MaxInits times; the scheduler fires the cron job at most         *)
(* MaxCronRuns times and the date job once per registration; a fired job    *)
(* runs __task in a thread of the scheduler's pool.                         *)

MaxInits == 2
MaxCronRuns == 1

Configs == [enabled : BOOLEAN, cron : {"none", "valid", "invalid"},
            onlyonce : BOOLEAN, fulladd : BOOLEAN]

\* What get_latest_list may return: the items of the feed, each with its
\* title and its link.
Feeds ==
    { <<>>,
      << [title |-> <<>>, link |-> <<"u">> \o MP4_D_TRUE],
         [title |-> <<"a">>, link |-> <<"v">> \o D_MP4] >>,
      << [title |-> <<"a">>, link |-> <<>>],
         [title |-> <<"b">>, link |-> <<"u">> \o MP4_D_TRUE] >> }

\* What the season page may give get_current_season_list.
Pages ==
    { "error",
      <<>>,
      << EpisodeFile("A", <<"2">>), EpisodeFile("A", <<"1">>) >> }

\* What open() and write() may do in a run of __task: the open fails or the
\* content is written. (SpecWriter goes through the short writes.)
TaskIOs == {i \in IOs : i.makedirs = "ok" /\ i.write = "ok"}

Attrs == [enabled |-> _enabled, cron |-> _cron, onlyonce |-> _onlyonce, fulladd |-> _fulladd]

Init ==
    /\ PLAYWRIGHT_AVAILABLE \in BOOLEAN
    /\ _enabled = FALSE /\ _cron = "none" /\ _onlyonce = FALSE /\ _fulladd = FALSE
    /\ saved = NoConfig
    /\ _scheduler = NoScheduler
    /\ run = [j \in Jobs |-> IdleRun]
    /\ init_config = NotCalled
    /\ ninit = 0 /\ ncron = 0
    /\ fs = <<>> /\ dir_exists = TRUE /\ _date = Unset
    /\ IdleNotPlugin

\* init_plugin(config). stop_service() comes first: it removes the jobs and
\* scheduler.shutdown() waits for the runs under way.
InitPlugin ==
    /\ ninit < MaxInits
    /\ \A j \in Jobs : ~Active(run[j])
    /\ \E given \in BOOLEAN, config \in Configs :
          LET r == InitPluginResult(Attrs, saved, given, config)
          IN  /\ _enabled' = r.attrs.enabled
              /\ _cron' = r.attrs.cron
              /\ _onlyonce' = r.attrs.onlyonce
              /\ _fulladd' = r.attrs.fulladd
              /\ saved' = r.saved
              /\ _scheduler' = r.scheduler
              /\ init_config' = [given |-> given, config |-> IF given THEN config ELSE NoConfig]
    /\ ninit' = ninit + 1
    /\ UNCHANGED <<PLAYWRIGHT_AVAILABLE, run, ncron, dirVars, notPlugin>>

\* The cron trigger fires: the scheduler submits self.__task() to its thread
\* pool unless an instance of this job is still running (max_instances=1).
CronFire ==
    /\ _scheduler.running /\ _scheduler.cron_job
    /\ ~Active(run["cron"])
    /\ ncron < MaxCronRuns
    /\ run' = [run EXCEPT !["cron"] = TaskEnter(CronJobMode(Attrs))]
    /\ ncron' = ncron + 1
    /\ UNCHANGED <<PLAYWRIGHT_AVAILABLE, _enabled, _cron, _onlyonce, _fulladd, saved,
                   _scheduler, init_config, ninit, dirVars, notPlugin>>

\* The date trigger fires, 3 seconds after init_plugin: the scheduler
\* submits self.__task(fulladd) to its thread pool and drops the job.
OnceFire ==
    /\ _scheduler.running /\ _scheduler.once_job # "none"
    /\ run' = [run EXCEPT !["once"] = TaskEnter(_scheduler.once_job = "full")]
    /\ _scheduler' = [_scheduler EXCEPT !.once_job = "none"]
    /\ UNCHANGED <<PLAYWRIGHT_AVAILABLE, _enabled, _cron, _onlyonce, _fulladd, saved,
                   init_config, ninit, ncron, dirVars, notPlugin>>

\* __task, not fulladd: one pass of the retry loop around get_latest_list,
\* which raises (the request or the XML parse failed) or returns the feed.
FetchLatest(j) ==
    /\ run[j].pc = "fetch" /\ ~run[j].fulladd
    /\ \/ run' = [run EXCEPT ![j] = TaskFetched(run[j], RetryRaised(run[j].rt), "error")]
       \/ \E feed \in Feeds :
             run' = [run EXCEPT ![j] =
                        TaskFetched(run[j], RetryReturned(run[j].rt, feed), "feed")]
    /\ UNCHANGED <<PLAYWRIGHT_AVAILABLE, _enabled, _cron, _onlyonce, _fulladd, saved,
                   _scheduler, init_config, ninit, ncron, dirVars, notPlugin>>

\* __task, fulladd: one pass of the retry loop around
\* get_current_season_list, which catches what the page fetch raises and
\* sets self._date (__get_ani_season) when Playwright is available.
FetchSeason(j) ==
    /\ run[j].pc = "fetch" /\ run[j].fulladd
    /\ \E page \in Pages :
          run' = [run EXCEPT ![j] =
                     TaskFetched(run[j],
                         RetryReturned(run[j].rt, SeasonList(PLAYWRIGHT_AVAILABLE, page)),
                         SeasonFetched(PLAYWRIGHT_AVAILABLE, page))]
    /\ _date' = IF PLAYWRIGHT_AVAILABLE THEN SEASON ELSE _date
    /\ UNCHANGED <<PLAYWRIGHT_AVAILABLE, _enabled, _cron, _onlyonce, _fulladd, saved,
                   _scheduler, init_config, ninit, ncron, fs, dir_exists, notPlugin>>

\* __touch_strm_file for the next item, up to the existence check
TouchCheck(j) ==
    /\ run[j].pc = "loop" /\ run[j].idx <= Len(run[j].items)
    /\ run' = [run EXCEPT ![j] = TaskCheck(run[j], fs, _date)]
    /\ UNCHANGED <<PLAYWRIGHT_AVAILABLE, _enabled, _cron, _onlyonce, _fulladd, saved,
                   _scheduler, init_config, ninit, ncron, dirVars, notPlugin>>

\* __touch_strm_file for the item checked: open, write, return
TouchWrite(j) ==
    /\ run[j].pc = "write"
    /\ \E io \in TaskIOs :
          LET r == OpenAndWrite(fs, dir_exists, TouchPath(run[j].items[run[j].idx].title),
                                run[j].src, io)
          IN  /\ fs' = r.fs
              /\ run' = [run EXCEPT ![j] = TaskWritten(run[j], r.ret)]
    /\ UNCHANGED <<PLAYWRIGHT_AVAILABLE, _enabled, _cron, _onlyonce, _fulladd, saved,
                   _scheduler, init_config, ninit, ncron, dir_exists, _date, notPlugin>>

\* __task: logger.info of the number of files created, after the loop
Report(j) ==
    /\ run[j].pc = "loop" /\ run[j].idx > Len(run[j].items)
    /\ run' = [run EXCEPT ![j] = TaskReported(run[j])]
    /\ UNCHANGED <<PLAYWRIGHT_AVAILABLE, _enabled, _cron, _onlyonce, _fulladd, saved,
                   _scheduler, init_config, ninit, ncron, dirVars, notPlugin>>

Next ==
    \/ InitPlugin
    \/ CronFire
    \/ OnceFire
    \/ \E j \in Jobs : FetchLatest(j)
    \/ \E j \in Jobs : FetchSeason(j)
    \/ \E j \in Jobs : TouchCheck(j)
    \/ \E j \in Jobs : TouchWrite(j)
    \/ \E j \in Jobs : Report(j)

Spec == Init /\ [][Next]_vars

\* C2: a failure in one item never leaves the run of __task: no run ends
\* with an exception instead of its report of the files created.
C2_ItemFailureStaysInRun ==
    \A j \in Jobs : run[j].pc # "raised"

\* C3: per call of a wrapped fetch the function is invoked at most 3 times,
\* never again after an invocation that returned (whose value the call
\* returns), the same delay is slept after every invocation that raised, and
\* when all 3 raised the call returns the empty list.
C3_RetryPolicy ==
    \A j \in Jobs :
        LET r == run[j].rt
            n == Len(r.attempts)
        IN  /\ n <= 3
            /\ \A i \in 1..(n - 1) : r.attempts[i] = "raised"
            /\ Len(r.slept) = Cardinality({i \in 1..n : r.attempts[i] = "raised"})
            /\ \A i \in DOMAIN r.slept : r.slept[i] = r.slept[1]
            /\ r.state = "returned" => n >= 1 /\ r.attempts[n] = "returned"
            /\ r.state = "exhausted" =>
                  /\ n = 3 /\ r.attempts[n] = "raised"
                  /\ r.value = <<>>
            /\ r.state \in {"returned", "exhausted"} =>
                  run[j].pc # "fetch" /\ (run[j].pc = "loop" => run[j].items = r.value)

\* Both ends of C3: a call that gave up after its third failure, while the
\* other job's call returned a feed on its third invocation.
C3_Witness ==
    \E j, k \in Jobs :
        /\ run[j].rt.state = "exhausted" /\ run[j].pc = "loop"
        /\ run[k].rt.state = "returned" /\ Len(run[k].rt.attempts) = 3
        /\ run[k].items # <<>>

\* C13: when the request for the season page raised, the full run either
\* is about to request the page again or has made its 3 attempts.
C13_SeasonFetchRetried ==
    \A j \in Jobs :
        run[j].fulladd /\ run[j].fetched = "error"
        => run[j].pc = "fetch" \/ Len(run[j].rt.attempts) = 3

\* C16: a call of init_plugin with onlyonce set registers the one-shot job
\* with the fulladd of that call, and leaves onlyonce and fulladd false in
\* the attributes and in the saved configuration; a call with the saved
\* configuration registers no one-shot job.
C16_OneShotSelfClearing ==
    [][ninit' = ninit + 1 =>
          /\ (init_config'.given /\ init_config'.config.onlyonce) =>
                /\ _scheduler'.once_job =
                       (IF init_config'.config.fulladd THEN "full" ELSE "incremental")
                /\ ~_onlyonce' /\ ~_fulladd'
                /\ ~saved'.onlyonce /\ ~saved'.fulladd
          /\ (init_config'.given /\ init_config'.config = saved) =>
                _scheduler'.once_job = "none"]_vars

\* C16 witness: the one-shot job of a first call ran in full mode, and a
\* second call, with the configuration the first one saved, registered none.
C16_Witness ==
    /\ ninit = 2
    /\ run["once"].pc # "idle" /\ run["once"].fulladd
    /\ init_config.given /\ init_config.config = saved
    /\ saved.enabled
    /\ _scheduler.exists /\ _scheduler.once_job = "none"

\* C17: a call of init_plugin with enabled set and an invalid cron
\* expression runs to its end (the configuration is saved), registers no
\* recurring job, and registers the one-shot job when onlyonce is set.
C17_InvalidCronSkipped ==
    [][(/\ ninit' = ninit + 1
        /\ init_config'.given
        /\ init_config'.config.enabled /\ init_config'.config.cron = "invalid") =>
          /\ saved' = Attrs'
          /\ _scheduler'.exists /\ ~_scheduler'.cron_job
          /\ init_config'.config.onlyonce =>
                _scheduler'.once_job # "none" /\ _scheduler'.running]_vars

\* C17 witness: the one-shot job registered beside an invalid cron
\* expression ran, and no cron run ever started.
C17_Witness ==
    /\ init_config.given
    /\ init_config.config.enabled /\ init_config.config.cron = "invalid"
    /\ init_config.config.onlyonce
    /\ ninit = 1
    /\ run["once"].pc = "reported"
    /\ ~_scheduler.cron_job

\* C21: a run of __task that starts in full mode is the one-shot run, and
\* the init_plugin call that registered it had onlyonce and fulladd set; a
\* run of the cron job starts in incremental mode whatever self._fulladd is,
\* and self._fulladd stays set after a call with fulladd and without onlyonce.
C21_FullModeOnlyByOneShot ==
    [][/\ \A j \in Jobs :
             (run[j].pc # "fetch" /\ run'[j].pc = "fetch" /\ run'[j].fulladd) =>
                 /\ j = "once"
                 /\ init_config.given
                 /\ init_config.config.onlyonce /\ init_config.config.fulladd
       /\ (/\ ninit' = ninit + 1 /\ init_config'.given
           /\ init_config'.config.fulladd /\ ~init_config'.config.onlyonce) =>
                 _fulladd']_vars

\* C21 witness: the one-shot run of a first call ran in full mode, and after
\* a second call that left self._fulladd set the cron job runs in
\* incremental mode.
C21_Witness ==
    /\ run["once"].pc = "reported" /\ run["once"].fulladd
    /\ _fulladd
    /\ run["cron"].pc = "fetch" /\ ~run["cron"].fulladd

\* C5: at most one run of __task is active at any time.
C5_OneRunAtATime ==
    ~(Active(run["cron"]) /\ Active(run["once"]))

\* C6: an item whose normalized name is empty is skipped: the call made for
\* it creates no file and does not count.
C6_EmptyNameSkipped ==
    \A j \in Jobs :
        (/\ run[j].pc = "loop" /\ run[j].idx > 1
         /\ CleanFilename(run[j].items[run[j].idx - 1].title) = <<>>)
        => run[j].ret # "created"

=============================================================================
